---- MODULE Spec2Model ----
(***************************************************************************)
(* EV range prediction and charging-station feasibility.                   *)
(*                                                                         *)
(* Two Streamlit scripts are modelled: src/app.py (prediction, then a      *)
(* straight-line feasibility check) and src/apps.py (prediction cached in  *)
(* st.session_state, OpenRouteService POST / GET / straight-line chain,    *)
(* then the feasibility check).  A session is a sequence of script runs;   *)
(* a run is a sequence of steps (pc).  Distances are whole kilometres,     *)
(* provider summary distances whole thousands of metres, so that the       *)
(* divisions of the code are exact in the integers.                        *)
(***************************************************************************)
EXTENDS Integers, Sequences, FiniteSets, TLC

VARIABLES
    script,         \* which script the session runs: "app" or "apps"
    api_key,        \* os.getenv("ORS_API_KEY") of the current run is set
    pc,             \* position of the current run
    exc,            \* exception that ended the run, "none" otherwise
    session_state,  \* apps.py: st.session_state (survives reruns)
    locals,         \* app.py: rf_pred / catboost_pred of the current run
    button,         \* st.button("Predict EV Range") returned True in this run
    features,       \* the feature vector entered in this run
    station,        \* the charging-station coordinate entered in this run
    predict_failed, \* the prediction handler of this run raised
    shown,          \* the (catboost, rf) pairs written to the page in this run
    got_route,      \* apps.py: got_route
    resp,           \* apps.py: response of requests.post
    resp2,          \* apps.py: response of requests.get
    net,            \* the HTTP requests issued in this run, in order
    route_map,      \* the polylines added to the folium map in this run
    dist_km,        \* draw_route_from_geojson: dist_km of the last drawn route
    out,            \* st.error / warning / info / caption calls of this run
    trip_km,        \* the distance compared with the predicted range
    verdict         \* "reachable" / "not reachable", "none" before the check

vars == <<script, api_key, pc, exc, session_state, locals, button, features,
          station, predict_failed, shown, got_route, resp, resp2, net,
          route_map, dist_km, out, trip_km, verdict>>

(***************************************************************************)
(* Optional values: Python None, an unbound local, an absent key.          *)
(***************************************************************************)
None == <<>>

Some(v) == <<v>>

Val(o) == o[1]

(***************************************************************************)
(* Bounds of the geometry inputs.                                          *)
(***************************************************************************)
MaxPts == 2

MaxSegs == 2

(***************************************************************************)
(* Inputs of a run.                                                        *)
(***************************************************************************)
\* Feature vectors the user can enter (each stands for one 15-field row).
Features == {1, 2}

\* The current location, as (lat, lon); start_lat / start_lon keep their default.
Start == <<0, 0>>

\* Charging-station coordinates the user can enter, as (lat, lon).
Stations == {<<1, 3>>, <<2, 3>>}

Abs(x) == IF x < 0 THEN -x ELSE x

\* geopy's geodesic(a, b).km: a function of the two coordinates only.
Geodesic(a, b) == Abs(a[1] - b[1]) + Abs(a[2] - b[2])

\* scaler.transform(input_data)
ScalerTransform(f) == 10 * f

\* cat_model.predict(input_scaled)[0], in km
CatPredict(scaled) == IF scaled = 10 THEN 4 ELSE 5

\* rf_model.predict(input_data)[0], in km
RfPredict(f) == IF f = 1 THEN 3 ELSE 6

(***************************************************************************)
(* Responses of the routing provider.                                      *)
(***************************************************************************)
\* Provider points are [lon, lat]; BadPt is a point with one ordinate only.
P1 == <<77, 12>>

P2 == <<78, 13>>

P3 == <<79, 14>>

BadPt == <<77>>

\* features[0].geometry: kind is "dict", "null" (JSON null) or "missing" (no
\* such key); coordinates is `line` for a LineString and `multi` for a
\* MultiLineString.
Geometry(kind, type, line, multi) ==
    [kind |-> kind, type |-> type, line |-> line, multi |-> multi]

NoGeometry == Geometry("missing", "", <<>>, <<>>)

\* features[0].properties.summary, metres and seconds.
Summary(present, distance, duration) ==
    [present |-> present, distance |-> distance, duration |-> duration]

NoSummary == Summary(FALSE, 0, 0)

\* The body of a response: shape is "invalid_json" (resp.json() raises),
\* "notdict", "nofeatures" (no or empty `features`) or "feature".
Body(shape, geometry, summary) ==
    [shape |-> shape, geometry |-> geometry, summary |-> summary]

EmptyBody == Body("none", NoGeometry, NoSummary)

\* outcome is "http", "ConnectionError", "Timeout", or "none" (no request yet).
Response(outcome, status, body) ==
    [outcome |-> outcome, status |-> status, body |-> body]

NoResponse == Response("none", 0, EmptyBody)

Ok200(body) == Response("http", 200, body)

FeatureBody(type, line, multi, summary) ==
    Body("feature", Geometry("dict", type, line, multi), summary)

GoodSummary == Summary(TRUE, 6000, 1200)

\* What the provider can answer to one request.
Responses ==
    { Response("ConnectionError", 0, EmptyBody),
      Response("Timeout", 0, EmptyBody),
      Response("http", 503, EmptyBody),
      Ok200(Body("invalid_json", NoGeometry, NoSummary)),
      Ok200(Body("notdict", NoGeometry, NoSummary)),
      Ok200(Body("nofeatures", NoGeometry, NoSummary)),
      Ok200(Body("feature", NoGeometry, NoSummary)),
      Ok200(Body("feature", Geometry("null", "", <<>>, <<>>), NoSummary)),
      Ok200(FeatureBody("Point", <<>>, <<>>, NoSummary)),
      Ok200(FeatureBody("Polygon", <<>>, <<>>, GoodSummary)),
      Ok200(FeatureBody("LineString", <<>>, <<>>, GoodSummary)),
      Ok200(FeatureBody("LineString", <<P1, P2>>, <<>>, GoodSummary)),
      Ok200(FeatureBody("LineString", <<P1, P2>>, <<>>, NoSummary)),
      Ok200(FeatureBody("LineString", <<P1, BadPt>>, <<>>, GoodSummary)),
      Ok200(FeatureBody("MultiLineString", <<>>, <<<<P1, P2>>, <<P3>>>>, GoodSummary)),
      Ok200(FeatureBody("MultiLineString", <<>>, <<<<>>, <<>>>>, NoSummary)),
      Ok200(FeatureBody("MultiLineString", <<>>, <<<<P1>>, <<BadPt>>>>, NoSummary)) }

(***************************************************************************)
(* draw_route_from_geojson                                                 *)
(***************************************************************************)
\* pt[1], pt[0] are defined for every point of seq
Indexable(seq) == \A i \in 1..Len(seq) : Len(seq[i]) >= 2

\* to_latlon with the axes left as the provider sends them
to_latlon_unswapped(seq) == [i \in 1..Len(seq) |-> <<seq[i][1], seq[i][2]>>]

\* to_latlon: ORS is [lon, lat] -> (lat, lon)
to_latlon(seq) == [i \in 1..Len(seq) |-> <<seq[i][2], seq[i][1]>>]

\* for seg in coords: route_latlon.extend(to_latlon(seg))
RECURSIVE ExtendAll(_, _)
ExtendAll(route_latlon, segs) ==
    IF segs = <<>> THEN route_latlon
    ELSE ExtendAll(route_latlon \o to_latlon(Head(segs)), Tail(segs))

\* st.error / st.warning / st.info / st.caption
Msg(level, text, arg) == <<level, text, arg>>

\* What one call of draw_route_from_geojson does: its return value, the
\* exception it raises ("none" if it returns), the polyline it adds to the
\* map, dist_km, and what it writes.
Drawn(ret, raised, path, km, msgs) ==
    [ret |-> ret, exc |-> raised, path |-> path, dist_km |-> km, out |-> msgs]

\* summary.get("distance", 0) / 1000
SummaryKm(summary) == IF summary.present THEN summary.distance \div 1000 ELSE 0

\* summary.get("duration", 0) / 60
SummaryMin(summary) == IF summary.present THEN summary.duration \div 60 ELSE 0

\* the `if route_latlon:` tail of draw_route_from_geojson
DrawPath(route_latlon, summary, msgs) ==
    IF route_latlon # <<>>
    THEN Drawn(TRUE, "none", route_latlon, SummaryKm(summary),
               msgs \o <<IF SummaryKm(summary) # 0 \/ SummaryMin(summary) # 0
                         THEN Msg("caption", "ORS route", "summary")
                         ELSE Msg("caption", "ORS route loaded", "")>>)
    ELSE Drawn(FALSE, "none", <<>>, 0, msgs)

\* an `else` branch that raises instead of warning
UnexpectedGeometryRaises(gtype, summary) ==
    Drawn(FALSE, "ValueError", <<>>, 0, <<>>)

\* the `else` branch of the geometry-type dispatch: a warning, no path
UnexpectedGeometry(gtype, summary) ==
    DrawPath(<<>>, summary,
             <<Msg("warning", "Unexpected geometry type from ORS", gtype)>>)

draw_route_from_geojson(body) ==
    IF body.shape # "feature" THEN Drawn(FALSE, "none", <<>>, 0, <<>>)
    ELSE IF body.geometry.kind = "null"
    THEN Drawn(FALSE, "AttributeError", <<>>, 0, <<>>)
    ELSE LET geom == IF body.geometry.kind = "missing" THEN NoGeometry
                     ELSE body.geometry
         IN IF geom.type = "LineString"
            THEN IF Indexable(geom.line)
                 THEN DrawPath(to_latlon(geom.line), body.summary, <<>>)
                 ELSE Drawn(FALSE, "IndexError", <<>>, 0, <<>>)
            ELSE IF geom.type = "MultiLineString"
            THEN IF \A k \in 1..Len(geom.multi) : Indexable(geom.multi[k])
                 THEN DrawPath(ExtendAll(<<>>, geom.multi), body.summary, <<>>)
                 ELSE Drawn(FALSE, "IndexError", <<>>, 0, <<>>)
            ELSE UnexpectedGeometry(geom.type, body.summary)

(***************************************************************************)
(* The state after construction: no run has started, the session is empty. *)
(***************************************************************************)
\* st.session_state with no key set
EmptySession == [k \in {} |-> None]

UnboundLocals == [catboost_pred |-> None, rf_pred |-> None]

RunReset ==
    /\ predict_failed' = FALSE
    /\ shown' = <<>>
    /\ got_route' = FALSE
    /\ resp' = NoResponse
    /\ resp2' = NoResponse
    /\ net' = <<>>
    /\ route_map' = <<>>
    /\ dist_km' = 0
    /\ trip_km' = None
    /\ verdict' = "none"
    /\ locals' = UnboundLocals

Init ==
    /\ script \in {"app", "apps"}
    /\ api_key \in BOOLEAN
    /\ pc = "idle"
    /\ exc = "none"
    /\ session_state = EmptySession
    /\ locals = UnboundLocals
    /\ button = FALSE
    /\ features = 1
    /\ station \in Stations
    /\ predict_failed = FALSE
    /\ shown = <<>>
    /\ got_route = FALSE
    /\ resp = NoResponse
    /\ resp2 = NoResponse
    /\ net = <<>>
    /\ route_map = <<>>
    /\ dist_km = 0
    /\ out = <<>>
    /\ trip_km = None
    /\ verdict = "none"

(***************************************************************************)
(* A script run, top of the file to the prediction button.                 *)
(***************************************************************************)
RunOver == pc \in {"idle", "done", "crashed", "stopped"}

\* a key check that never stops the script
KeyNeverMissing(key) == FALSE

\* apps.py: `if not api_key:` ... st.stop()
KeyMissing(key) == ~key

\* `if 'catboost_pred' not in st.session_state:` ... `if 'rf_pred' not in ...`
SessionDefaults(ss) ==
    [k \in DOMAIN ss \cup {"catboost_pred", "rf_pred"} |->
        IF k \in DOMAIN ss THEN ss[k] ELSE None]

\* Streamlit reruns the script: load_dotenv() and os.getenv are evaluated
\* again (a key once in the environment stays there, a .env file may have
\* been added since), the widgets are read, the scaler is applied.
StartRun ==
    /\ RunOver
    /\ api_key' \in IF api_key THEN {TRUE} ELSE BOOLEAN
    /\ \E b \in BOOLEAN, f \in Features, s \in Stations, scaler_ok \in BOOLEAN :
         /\ button' = b
         /\ features' = f
         /\ station' = s
         /\ RunReset
         /\ IF script = "apps" /\ KeyMissing(api_key')
            THEN /\ out' = <<Msg("error", "OpenRouteService API key not found", "")>>
                 /\ pc' = "stopped"
                 /\ exc' = "none"
                 /\ UNCHANGED session_state
            ELSE IF ~scaler_ok
            THEN /\ out' = <<>>
                 /\ pc' = "crashed"
                 /\ exc' = "ScalerError"
                 /\ UNCHANGED session_state
            ELSE /\ out' = <<>>
                 /\ pc' = "predict"
                 /\ exc' = "none"
                 /\ session_state' = IF script = "apps"
                                     THEN SessionDefaults(session_state)
                                     ELSE session_state
    /\ UNCHANGED script

(***************************************************************************)
(* The prediction button handler.                                          *)
(***************************************************************************)
\* The pair written as "CatBoost Prediction" / "Random Forest Prediction".
Pair(p) == <<p.catboost_pred, p.rf_pred>>

\* The `try:` body: rf_model.predict first, cat_model.predict second; each
\* assignment happens only if its call returned.
AfterPredict(p, f, rf_ok, cat_ok) ==
    LET p1 == IF rf_ok THEN [p EXCEPT !["rf_pred"] = Some(RfPredict(f))] ELSE p
    IN IF rf_ok /\ cat_ok
       THEN [p1 EXCEPT !["catboost_pred"] = Some(CatPredict(ScalerTransform(f)))]
       ELSE p1

PredictionError == Msg("error", "Prediction Error", "")

\* apps.py: the button handler, then the "Previous Prediction" block.
PredictApps ==
    /\ pc = "predict"
    /\ script = "apps"
    /\ \E rf_ok \in BOOLEAN, cat_ok \in BOOLEAN :
         LET ok == rf_ok /\ cat_ok
             ss == IF button
                   THEN AfterPredict(session_state, features, rf_ok, cat_ok)
                   ELSE session_state
         IN /\ session_state' = ss
            /\ predict_failed' = (button /\ ~ok)
            /\ out' = IF button /\ ~ok THEN Append(out, PredictionError) ELSE out
            /\ shown' = (IF button /\ ok THEN <<Pair(ss)>> ELSE <<>>)
                        \o (IF ss["catboost_pred"] # None THEN <<Pair(ss)>> ELSE <<>>)
    /\ pc' = "route"
    /\ UNCHANGED <<script, api_key, exc, locals, button, features, station,
                   got_route, resp, resp2, net, route_map, dist_km, trip_km,
                   verdict>>

\* app.py: the button handler; rf_pred and catboost_pred are plain locals.
PredictApp ==
    /\ pc = "predict"
    /\ script = "app"
    /\ \E rf_ok \in BOOLEAN, cat_ok \in BOOLEAN :
         LET ok == rf_ok /\ cat_ok
             ls == IF button
                   THEN AfterPredict(locals, features, rf_ok, cat_ok)
                   ELSE locals
         IN /\ locals' = ls
            /\ predict_failed' = (button /\ ~ok)
            /\ out' = IF button /\ ~ok THEN Append(out, PredictionError) ELSE out
            /\ shown' = IF button /\ ok THEN <<Pair(ls)>> ELSE <<>>
    /\ pc' = "feasibility"
    /\ UNCHANGED <<script, api_key, exc, session_state, button, features,
                   station, got_route, resp, resp2, net, route_map, dist_km,
                   trip_km, verdict>>

(***************************************************************************)
(* apps.py: routing.                                                       *)
(***************************************************************************)
\* `if st.session_state.catboost_pred is not None:` ... `else: st.info(...)`
HasPrediction(ss) == ss["catboost_pred"] # None

RunPredictionFirst == Msg("info", "Please run the prediction first", "")

RoutingGuard ==
    /\ pc = "route"
    /\ IF HasPrediction(session_state)
       THEN /\ pc' = "post"
            /\ out' = out
       ELSE /\ pc' = "done"
            /\ out' = Append(out, RunPredictionFirst)
    /\ UNCHANGED <<script, api_key, exc, session_state, locals, button,
                   features, station, predict_failed, shown, got_route, resp,
                   resp2, net, route_map, dist_km, trip_km, verdict>>

\* timeout=20 of requests.post and requests.get
Timeout == 20

Request(method) == [method |-> method, timeout |-> Timeout]

\* an `except` clause that catches connection errors only
IsConnectionErrorOnly(outcome) == outcome = "ConnectionError"

\* `except requests.RequestException`: Timeout and ConnectionError are
\* subclasses of RequestException.
IsRequestException(outcome) == outcome \in {"ConnectionError", "Timeout"}

\* a guard that ignores got_route
AlwaysTry(got) == TRUE

\* `if not got_route:` before the GET attempt and before the straight line
NoRouteYet(got) == ~got

\* One attempt: the `try:` block around requests.post / requests.get.
\* json_is_request_exception: the installed requests raises its own
\* JSONDecodeError (a RequestException) from resp.json(); older releases raise
\* a plain ValueError, which the `except` clause does not catch.
Attempt(method, r, json_is_request_exception, next) ==
    /\ net' = Append(net, Request(method))
    /\ IF IsRequestException(r.outcome)
       THEN /\ out' = Append(out, Msg("error", "ORS failed", method))
            /\ UNCHANGED <<got_route, route_map, dist_km, exc>>
            /\ pc' = next
       ELSE IF r.outcome # "http"
       THEN \* an exception that is no RequestException leaves the script
            /\ exc' = r.outcome
            /\ pc' = "crashed"
            /\ UNCHANGED <<got_route, route_map, dist_km, out>>
       ELSE IF r.status # 200
       THEN /\ out' = Append(out, Msg("error", "ORS status " \o ToString(r.status), method))
            /\ UNCHANGED <<got_route, route_map, dist_km, exc>>
            /\ pc' = next
       ELSE IF r.body.shape = "invalid_json"
       THEN IF json_is_request_exception
            THEN /\ out' = Append(out, Msg("error", "ORS failed", method))
                 /\ UNCHANGED <<got_route, route_map, dist_km, exc>>
                 /\ pc' = next
            ELSE /\ exc' = "ValueError"
                 /\ pc' = "crashed"
                 /\ UNCHANGED <<got_route, route_map, dist_km, out>>
       ELSE LET d == draw_route_from_geojson(r.body)
            IN IF d.exc # "none"
               THEN /\ exc' = d.exc
                    /\ pc' = "crashed"
                    /\ out' = out \o d.out
                    /\ UNCHANGED <<got_route, route_map, dist_km>>
               ELSE /\ got_route' = d.ret
                    /\ route_map' = IF d.ret THEN Append(route_map, d.path)
                                    ELSE route_map
                    /\ dist_km' = d.dist_km
                    /\ out' = out \o d.out \o
                              (IF d.ret THEN <<>>
                               ELSE <<Msg("warning", "returned 200 but no features", method)>>)
                    /\ pc' = next
                    /\ UNCHANGED exc

\* # ORS POST
Post ==
    /\ pc = "post"
    /\ \E r \in Responses, j \in BOOLEAN :
         /\ resp' = r
         /\ Attempt("POST", r, j, "get")
    /\ UNCHANGED <<script, api_key, session_state, locals, button, features,
                   station, predict_failed, shown, resp2, trip_km, verdict>>

\* # ORS GET fallback
Get ==
    /\ pc = "get"
    /\ IF NoRouteYet(got_route)
       THEN \E r \in Responses, j \in BOOLEAN :
              /\ resp2' = r
              /\ Attempt("GET", r, j, "fallback")
       ELSE /\ pc' = "fallback"
            /\ UNCHANGED <<resp2, net, got_route, route_map, dist_km, out, exc>>
    /\ UNCHANGED <<script, api_key, session_state, locals, button, features,
                   station, predict_failed, shown, resp, trip_km, verdict>>

StraightLine == <<Start, station>>

\* # Fallback straight line
Fallback ==
    /\ pc = "fallback"
    /\ IF NoRouteYet(got_route)
       THEN /\ route_map' = Append(route_map, StraightLine)
            /\ out' = Append(out, Msg("caption", "Showing straight line fallback", ""))
       ELSE UNCHANGED <<route_map, out>>
    /\ pc' = "feasibility"
    /\ UNCHANGED <<script, api_key, exc, session_state, locals, button,
                   features, station, predict_failed, shown, got_route, resp,
                   resp2, net, dist_km, trip_km, verdict>>

(***************************************************************************)
(* Feasibility vs predicted range.                                         *)
(***************************************************************************)
\* a strict comparison
ReachableStrict(trip, predicted) == trip < predicted

\* `trip_km <= catboost_pred`
Reachable(trip, predicted) == trip <= predicted

Verdict(trip, predicted) ==
    IF Reachable(trip, predicted) THEN "reachable" ELSE "not reachable"

\* apps.py: trip_km is the geodesic distance of the two coordinates.
Feasibility ==
    /\ pc = "feasibility"
    /\ script = "apps"
    /\ trip_km' = Some(Geodesic(Start, station))
    /\ verdict' = Verdict(Geodesic(Start, station), Val(session_state["catboost_pred"]))
    /\ pc' = "done"
    /\ UNCHANGED <<script, api_key, exc, session_state, locals, button,
                   features, station, predict_failed, shown, got_route, resp,
                   resp2, net, route_map, dist_km, out>>

\* app.py: distance_to_station is compared with the local catboost_pred, which
\* is bound only if the button handler assigned it in this run; then the map
\* gets the straight line.
FeasibilityApp ==
    /\ pc = "feasibility"
    /\ script = "app"
    /\ trip_km' = Some(Geodesic(Start, station))
    /\ IF locals.catboost_pred = None
       THEN /\ exc' = "NameError"
            /\ pc' = "crashed"
            /\ UNCHANGED <<verdict, route_map>>
       ELSE /\ verdict' = Verdict(Geodesic(Start, station), Val(locals.catboost_pred))
            /\ route_map' = Append(route_map, StraightLine)
            /\ pc' = "done"
            /\ UNCHANGED exc
    /\ UNCHANGED <<script, api_key, session_state, locals, button, features,
                   station, predict_failed, shown, got_route, resp, resp2,
                   net, dist_km, out>>

Next ==
    \/ StartRun
    \/ PredictApps
    \/ PredictApp
    \/ RoutingGuard
    \/ Post
    \/ Get
    \/ Fallback
    \/ Feasibility
    \/ FeasibilityApp

Spec == Init /\ [][Next]_vars

(***************************************************************************)
(* Geometry normalisation on its own: one attempt whose 200 response       *)
(* carries a LineString or MultiLineString drawn from the bounded sets.    *)
(***************************************************************************)
\* a point with a third ordinate (elevation)
PEle == <<78, 13, 900>>

Pts == {P1, PEle, BadPt}

Lines == UNION {[1..n -> Pts] : n \in 0..MaxPts}

Multis == UNION {[1..n -> Lines] : n \in 0..MaxSegs}

GeomResponses ==
    {Ok200(FeatureBody("LineString", l, <<>>, NoSummary)) : l \in Lines}
    \cup {Ok200(FeatureBody("MultiLineString", <<>>, m, GoodSummary)) : m \in Multis}

InitGeom ==
    /\ script = "apps"
    /\ api_key = TRUE
    /\ pc \in {"post", "get"}
    /\ exc = "none"
    /\ session_state = AfterPredict(SessionDefaults(EmptySession), 1, TRUE, TRUE)
    /\ locals = UnboundLocals
    /\ button = TRUE
    /\ features = 1
    /\ station = <<1, 3>>
    /\ predict_failed = FALSE
    /\ shown = <<Pair(session_state), Pair(session_state)>>
    /\ got_route = FALSE
    /\ resp = IF pc = "get" THEN Response("http", 503, EmptyBody) ELSE NoResponse
    /\ resp2 = NoResponse
    /\ net = IF pc = "get" THEN <<Request("POST")>> ELSE <<>>
    /\ route_map = <<>>
    /\ dist_km = 0
    /\ out = IF pc = "get" THEN <<Msg("error", "ORS status 503", "POST")>> ELSE <<>>
    /\ trip_km = None
    /\ verdict = "none"

PostGeom ==
    /\ pc = "post"
    /\ \E r \in GeomResponses :
         /\ resp' = r
         /\ Attempt("POST", r, TRUE, "get")
    /\ UNCHANGED <<script, api_key, session_state, locals, button, features,
                   station, predict_failed, shown, resp2, trip_km, verdict>>

GetGeom ==
    /\ pc = "get"
    /\ resp2 = NoResponse
    /\ resp.status = 503
    /\ \E r \in GeomResponses :
         /\ resp2' = r
         /\ Attempt("GET", r, TRUE, "fallback")
    /\ UNCHANGED <<script, api_key, session_state, locals, button, features,
                   station, predict_failed, shown, resp, trip_km, verdict>>

NextGeom ==
    \/ PostGeom
    \/ GetGeom

SpecGeom == InitGeom /\ [][NextGeom]_vars

(***************************************************************************)
(* Properties.                                                             *)
(***************************************************************************)
Emitted(m) == \E i \in 1..Len(out) : out[i] = m

Issued(method) == {i \in 1..Len(net) : net[i].method = method}

IsFeature(r) ==
    /\ r.outcome = "http"
    /\ r.status = 200
    /\ r.body.shape = "feature"
    /\ r.body.geometry.kind = "dict"

\* The response carries a non-empty path.
Usable(r) ==
    /\ IsFeature(r)
    /\ \/ r.body.geometry.type = "LineString" /\ r.body.geometry.line # <<>>
       \/ /\ r.body.geometry.type = "MultiLineString"
          /\ \E k \in 1..Len(r.body.geometry.multi) : r.body.geometry.multi[k] # <<>>

\* The response of the attempt made last.
LastResp == IF resp2 # NoResponse THEN resp2 ELSE resp

AttemptReturned == pc \in {"get", "fallback"} /\ LastResp # NoResponse

FallbackCaption == Msg("caption", "Showing straight line fallback", "")

\* C1: whatever the provider answers to the POST and to the GET, route
\* resolution raises nothing: a run that issued a request does not end in an
\* exception, and a run that got no usable path shows the straight line.
C1_NeverPropagates ==
    /\ (net # <<>> => pc # "crashed")
    /\ (script = "apps" /\ pc \in {"feasibility", "done"} /\ net # <<>> /\ ~got_route
          => Emitted(FallbackCaption))

\* The primary (CatBoost) prediction the verdict of this run was taken against.
Primary ==
    IF script = "app" THEN locals.catboost_pred
    ELSE IF "catboost_pred" \in DOMAIN session_state
    THEN session_state["catboost_pred"]
    ELSE None

\* C2: a verdict is "reachable" exactly when the compared travel distance is
\* at most the primary (CatBoost) prediction, equality included.
C2_VerdictIffWithinRange ==
    verdict # "none" =>
        /\ verdict \in {"reachable", "not reachable"}
        /\ trip_km # None /\ Primary # None
        /\ (verdict = "reachable") <=> (Val(trip_km) <= Val(Primary))

C2_Witness ==
    /\ verdict = "reachable"
    /\ Val(trip_km) = Val(Primary)

\* C3: the distance compared with the predicted range is the provider's route
\* distance when an attempt yielded a route, and the geodesic distance only
\* when resolution ended in the straight-line fallback (a route without a
\* summary distance is left open here).
C3_ComparesRouteDistance ==
    (script = "apps" /\ verdict # "none") =>
        /\ (got_route /\ dist_km # 0) => Val(trip_km) = dist_km
        /\ ~got_route => Val(trip_km) = Geodesic(Start, station)

\* C4: a GET is issued only as the second request, after a POST that gave no
\* usable path, and never after a POST that gave one; the straight line is
\* drawn only after both requests were made and neither gave a usable path.
C4_OrderedChain ==
    script = "apps" =>
        /\ \A i \in Issued("GET") :
             /\ i = 2
             /\ net[1].method = "POST"
             /\ resp # NoResponse
             /\ ~Usable(resp)
        /\ (Usable(resp) => Issued("GET") = {} /\ resp2 = NoResponse)
        /\ (Emitted(FallbackCaption) =>
               /\ Len(net) = 2
               /\ resp # NoResponse /\ resp2 # NoResponse
               /\ ~Usable(resp) /\ ~Usable(resp2)
               /\ ~got_route)

C4_Witness ==
    /\ pc = "done"
    /\ Len(net) = 2
    /\ ~Usable(resp)
    /\ Usable(resp2)
    /\ got_route
    /\ ~Emitted(FallbackCaption)

\* A pair both of whose values come from one request, or that is unset.
Whole(pair) ==
    \/ pair = <<None, None>>
    \/ \E f \in Features :
         pair = <<Some(CatPredict(ScalerTransform(f))), Some(RfPredict(f))>>

\* C5: after a prediction request that raised, the stored pair and every
\* presented pair is whole: never one value of the failed request next to a
\* value of an earlier request or an unset value.
C5_NoPartialEstimate ==
    (script = "apps" /\ predict_failed) =>
        /\ Whole(Pair(session_state))
        /\ \A i \in 1..Len(shown) : Whole(shown[i])

\* Number of points of the sub-paths before sub-path k.
RECURSIVE Offset(_, _)
Offset(multi, k) == IF k <= 1 THEN 0 ELSE Offset(multi, k - 1) + Len(multi[k - 1])

WellFormedLine(r) ==
    /\ IsFeature(r)
    /\ r.body.geometry.type = "LineString"
    /\ \A i \in 1..Len(r.body.geometry.line) : Len(r.body.geometry.line[i]) >= 2

WellFormedMulti(r) ==
    /\ IsFeature(r)
    /\ r.body.geometry.type = "MultiLineString"
    /\ \A k \in 1..Len(r.body.geometry.multi) :
         \A i \in 1..Len(r.body.geometry.multi[k]) :
            Len(r.body.geometry.multi[k][i]) >= 2

\* The canonical path of the attempt made last (empty if none was drawn).
CanonicalPath == IF route_map = <<>> THEN <<>> ELSE route_map[Len(route_map)]

\* C6: the canonical path of a LineString is its points, in order, each with
\* the axes swapped; that of a MultiLineString is the swapped points of its
\* sub-paths, sub-path after sub-path, none dropped and none reordered.
C6_Normalization ==
    AttemptReturned =>
        /\ WellFormedLine(LastResp) =>
             LET line == LastResp.body.geometry.line
             IN /\ Len(CanonicalPath) = Len(line)
                /\ \A i \in 1..Len(line) :
                     /\ Len(CanonicalPath[i]) = 2
                     /\ CanonicalPath[i][1] = line[i][2]
                     /\ CanonicalPath[i][2] = line[i][1]
        /\ WellFormedMulti(LastResp) =>
             LET multi == LastResp.body.geometry.multi
             IN /\ Len(CanonicalPath) = Offset(multi, Len(multi) + 1)
                /\ \A k \in 1..Len(multi) : \A i \in 1..Len(multi[k]) :
                     /\ Len(CanonicalPath[Offset(multi, k) + i]) = 2
                     /\ CanonicalPath[Offset(multi, k) + i][1] = multi[k][i][2]
                     /\ CanonicalPath[Offset(multi, k) + i][2] = multi[k][i][1]

C6_Witness ==
    /\ AttemptReturned
    /\ WellFormedMulti(LastResp)
    /\ LastResp.body.geometry.multi = <<<<PEle, P1>>, <<PEle>>>>
    /\ CanonicalPath = <<<<13, 78>>, <<12, 77>>, <<13, 78>>>>

UnexpectedTypeIn(r) ==
    /\ IsFeature(r)
    /\ r.body.geometry.type \notin {"LineString", "MultiLineString"}

UnexpectedWarning(r) ==
    Msg("warning", "Unexpected geometry type from ORS", r.body.geometry.type)

\* C7: an attempt whose first feature has any other geometry type raises
\* nothing, warns with the type's name, draws no path, and the chain goes on:
\* the GET is issued after such a POST, the straight line drawn after such a GET.
C7_UnexpectedTypeAdvances ==
    /\ UnexpectedTypeIn(resp) =>
         /\ Emitted(UnexpectedWarning(resp))
         /\ resp2 = NoResponse => (pc = "get" /\ exc = "none" /\ ~got_route
                                    /\ route_map = <<>>)
         /\ pc # "get" => Issued("GET") = {2}
    /\ UnexpectedTypeIn(resp2) =>
         /\ Emitted(UnexpectedWarning(resp2))
         /\ exc = "none" /\ ~got_route
         /\ pc \in {"fallback", "feasibility", "done"}
         /\ pc = "fallback" => route_map = <<>>
         /\ pc # "fallback" => (route_map = <<StraightLine>> /\ Emitted(FallbackCaption))

C7_Witness ==
    /\ pc = "done"
    /\ UnexpectedTypeIn(resp) /\ resp.body.geometry.type = "Point"
    /\ UnexpectedTypeIn(resp2) /\ resp2.body.geometry.type = "Polygon"
    /\ Emitted(FallbackCaption)

KeyNotFound == Msg("error", "OpenRouteService API key not found", "")

\* C8 as stated: without the API key the engine does not abort: no request is
\* issued and a run with a prediction still ends with a straight-line
\* distance and a verdict.
C8_FallbackOnlyWithoutKey ==
    (script = "apps" /\ ~api_key) =>
        /\ net = <<>>
        /\ pc # "stopped"
        /\ (pc = "done" /\ HasPrediction(session_state) =>
               trip_km = Some(Geodesic(Start, station)) /\ verdict # "none")

\* C8, amended: without the API key apps.py reports the missing key and stops
\* the run at its start: in that run no request is issued, no prediction is
\* made or presented, and no route, travel distance or verdict is produced.
C8_StopsWithoutKey ==
    (script = "apps" /\ ~api_key) =>
        /\ net = <<>>
        /\ pc \in {"idle", "stopped"}
        /\ pc = "stopped" => out = <<KeyNotFound>>
        /\ shown = <<>> /\ ~predict_failed
        /\ route_map = <<>> /\ trip_km = None /\ verdict = "none"

C8_Witness ==
    /\ script = "apps"
    /\ ~api_key
    /\ pc = "stopped"
    /\ button

\* The attempt failed without a response, or with a non-2xx one.
Unanswered(r) == r.outcome \in {"Timeout", "ConnectionError"}

Non2xx(r) == r.outcome = "http" /\ r.status # 200

\* C9: a run issues at most one POST and at most one GET, each with a finite
\* timeout; a timeout or transport error does what a non-2xx response does:
\* nothing is raised, no route is taken, and the chain goes to its next step
\* (the GET after the POST, the straight line after the GET).
C9_OneAttemptEach ==
    /\ Cardinality(Issued("POST")) <= 1
    /\ Cardinality(Issued("GET")) <= 1
    /\ \A i \in 1..Len(net) : net[i].timeout \in Nat \ {0}
    /\ \A r \in {resp} :
         (Unanswered(r) \/ Non2xx(r)) =>
            /\ exc = "none" \/ resp2 # NoResponse
            /\ resp2 = NoResponse => (pc = "get" /\ ~got_route /\ route_map = <<>>)
            /\ pc # "get" => Issued("GET") = {2}
    /\ \A r \in {resp2} :
         (Unanswered(r) \/ Non2xx(r)) =>
            /\ exc = "none" /\ ~got_route
            /\ pc \in {"fallback", "feasibility", "done"}
            /\ pc # "fallback" => route_map = <<StraightLine>>

C9_Witness ==
    /\ pc = "done"
    /\ resp.outcome = "Timeout"
    /\ Non2xx(resp2)
    /\ Len(net) = 2
    /\ Emitted(FallbackCaption)

\* C10: requests and the comparison happen only in runs that have a primary
\* prediction; a run that reaches the feasibility section without one makes
\* no comparison and tells the user to run the prediction first.
C10_GuardedByPrediction ==
    /\ (net # <<>> \/ verdict # "none") => Primary # None
    /\ (pc \in {"done", "crashed"} /\ exc # "ScalerError" /\ Primary = None) =>
          /\ verdict = "none"
          /\ exc = "none"
          /\ Emitted(RunPredictionFirst)

====
